---- MODULE Spec2Model ----
(***************************************************************************)
(* Job lifecycle and real-time progress distribution of the commute        *)
(* planner: the Job Store (backend, PostgreSQL table jobs), the dispatch   *)
(* queue (Redis list commute_jobs), the gateway orchestration              *)
(* (createCommuteJob), the Progress Channel (Redis pub/sub job_progress),  *)
(* the relay (RedisService channel handler + startServer listener) and the *)
(* GraphQL subscription fan-out (PubSub topics).                           *)
(***************************************************************************)
EXTENDS Naturals, Sequences, FiniteSets, TLC

\* ------------------------------------------------------------------ bounds
MaxReqs == 2        \* job-creation requests (gateway or direct backend)
MaxMsgs == 2        \* messages the worker publishes on the Progress Channel
MaxSubs == 2        \* GraphQL subscription clients
MaxConsumers == 2   \* worker instances popping the dispatch queue
MaxUpdates == 2     \* UPDATE statements issued against table jobs

Reqs == 1..MaxReqs
Subs == 1..MaxSubs
Consumers == 1..MaxConsumers

\* ------------------------------------------------------------ value spaces
Null == "null"
STAR == "*"
Uuid(n) == "job-" \o ToString(n)
JobUuids == {Uuid(n) : n \in 1..MaxReqs}
EventJobIds == {Uuid(1), Uuid(2), STAR}
AGGREGATE_TOPIC == "JOB_PROGRESS"
\* mutant: the per-job topic name leaves the job id out
JobTopic_NoId(jobId) == "JOB_PROGRESS_"
JobTopic(jobId) == "JOB_PROGRESS_" \o jobId
ValidInput == [userId |-> "u1", targetDate |-> "2025-08-15"]
\* the createJob input of the store specification: one that carries inputData
StoreInput == [userId |-> "u1", targetDate |-> "2025-08-15", inputData |-> "{\"mode\":\"demo\"}"]
Inputs == {ValidInput, [userId |-> "", targetDate |-> "2025-08-15"], [userId |-> "u1", targetDate |-> ""]}

Undefined == "undefined"
SubscribeArgs == {Undefined, "", Uuid(1), Uuid(2), STAR}
\* progress is kept in hundredths: 30 stands for 0.3, 100 for 1.0
InProgress30 == [status |-> "IN_PROGRESS", progress |-> 30]
Completed100 == [status |-> "COMPLETED", progress |-> 100]
EventKinds == {InProgress30, Completed100}
\* the worker events of the progress specifications: two jobs, both kinds,
\* and an event whose jobId is the registry key of the relay listener
SampleEvents == {<<Uuid(1), InProgress30>>, <<Uuid(2), Completed100>>, <<STAR, InProgress30>>}
ClientArgs == {Undefined, Uuid(1), Uuid(2), STAR}
RELAY == "relay"
ApiListeners == {"listenerA", "listenerB"}

VARIABLES
    jobs,               \* Job Store: the rows of table jobs
    uuidCounter,        \* number of uuid.New() calls so far
    updateCount,        \* number of UPDATE statements run against jobs so far
    lastCall,           \* the most recent updateJob / job / deleteJob call
    queue,              \* Redis list commute_jobs, head of the list first
    taken,              \* per worker instance, the descriptors it popped
    reqs,               \* job-creation requests and where each stands
    gw,                 \* gateway startServer progress
    channelSubs,        \* handlers the gateway has subscribed to the Progress Channel
    progressListeners,  \* RedisService.progressListeners: key -> listener
    subs,               \* GraphQL subscription clients: state, topic, since
    pushQueue,          \* per client, events queued in its async iterator
    delivered,          \* per client, events pulled and sent to the client
    channelLog,         \* every message published on the Progress Channel
    pubClock,           \* number of publications so far (event timestamps)
    listenerGot,        \* per directly registered listener, events it got
    apiRegs,            \* per directly registered listener, its registration
    widget              \* state of the CommutePlannerWidget of one browser

storeVars == <<jobs, uuidCounter, updateCount, lastCall>>
queueVars == <<queue, taken>>
fanoutVars == <<subs, pushQueue, delivered>>
relayVars == <<gw, channelSubs, progressListeners, listenerGot, apiRegs>>
channelVars == <<channelLog, pubClock>>
vars == <<jobs, uuidCounter, updateCount, lastCall, queue, taken, reqs, gw, channelSubs, progressListeners,
          subs, pushQueue, delivered, channelLog, pubClock, listenerGot, apiRegs, widget>>

\* ---------------------------------------------------------------- helpers
Count(seq, P(_)) == Cardinality({i \in DOMAIN seq : P(seq[i])})
NoJob == [id |-> Null]
NoResponse == [ok |-> FALSE, job |-> NoJob, message |-> Null, code |-> Null]
IdleReq == [via |-> "none", pc |-> "idle", input |-> ValidInput, job |-> NoJob, failedAt |-> Null, response |-> NoResponse]

NoSub == [state |-> "none", jobId |-> Null, topic |-> Null, since |-> 0]
ClosedSub == [state |-> "closed", jobId |-> Null, topic |-> Null, since |-> 0]
NoReg == [key |-> Null, since |-> 0, active |-> FALSE]

\* JavaScript Map operations used on progressListeners.
MapSet(m, k, v) == [x \in (DOMAIN m) \cup {k} |-> IF x = k THEN v ELSE m[x]]
MapDelete(m, k) == [x \in (DOMAIN m) \ {k} |-> m[x]]
MapHas(m, k) == k \in DOMAIN m

\* ------------------------------------------------------------- Job Store
\* The row INSERTed by Resolver.CreateJob: status PENDING, progress 0.0,
\* optional columns NULL, created_at = updated_at = now.
\* input_data of the INSERT: the JSON string when one was sent and is not
\* empty, NULL otherwise.
InputDataColumn(input) ==
    IF "inputData" \in DOMAIN input /\ input.inputData # "" THEN input.inputData ELSE Null
\* mutant: the row is inserted as already running
NewJobRow_Running(id, input, now) ==
    [id |-> id, userId |-> input.userId, status |-> "IN_PROGRESS", progress |-> 0,
     currentStep |-> Null, targetDate |-> input.targetDate, inputData |-> InputDataColumn(input),
     result |-> Null, errorMessage |-> Null, createdAt |-> now, updatedAt |-> now]
NewJobRow(id, input, now) ==
    [id |-> id, userId |-> input.userId, status |-> "PENDING", progress |-> 0,
     currentStep |-> Null, targetDate |-> input.targetDate, inputData |-> InputDataColumn(input),
     result |-> Null, errorMessage |-> Null, createdAt |-> now, updatedAt |-> now]

\* The INSERT is rejected by the datastore for a user_id that is not a UUID
\* and for a target_date that is not a date; it may also fail for reasons
\* outside the program (connection loss), which the caller of CreateJob picks.
InsertAccepted(input) == input.userId # "" /\ input.targetDate # ""
\* id is the PRIMARY KEY of jobs.
PrimaryKeyFree(rows, id) == \A row \in rows : row.id # id

\* ---------------------------------------------------------- Dispatch Queue
\* mutant: the element is put at the other end of the list (RPUSH)
LPush_Tail(list, elem) == Append(list, elem)
\* LPUSH puts the element at the head of the list.
LPush(list, elem) == <<elem>> \o list
\* JobData the gateway's createCommuteJob hands to pushJob.
Descriptor(job) == [job_id |-> job.id, user_id |-> job.userId, target_date |-> job.targetDate]
\* JobMessage the backend's QueueJob / AddJobToQueue marshal: input_data is
\* there when the request carried a non-null inputData (omitempty).
JobMessage(job, input) ==
    IF "inputData" \in DOMAIN input
    THEN [job_id |-> job.id, user_id |-> job.userId, target_date |-> job.targetDate,
          input_data |-> input.inputData]
    ELSE Descriptor(job)
\* mutant: the backend queues whether or not CreateJob returned a job
ShouldQueue_Always(created) == TRUE
\* `if job != nil` before QueueJob in the createJob branch.
ShouldQueue(created) == created

\* RPOP side of the list: the element pushed longest ago.
QueueHead(list) == list[Len(list)]
QueueRest(list) == SubSeq(list, 1, Len(list) - 1)

\* ------------------------------------------------- responses and errors
JobResponse(job) == [ok |-> TRUE, job |-> job, message |-> Null, code |-> Null]
ErrorResponse(message, code) == [ok |-> FALSE, job |-> NoJob, message |-> message, code |-> code]
\* A thrown value: GraphQLError instances keep their message and code.
GraphQLError(message, code) == [graphql |-> TRUE, message |-> message, code |-> code]
PlainError(message) == [graphql |-> FALSE, message |-> message, code |-> Null]
\* catch block of createCommuteJob: a GraphQLError is rethrown as it is,
\* anything else becomes the generic INTERNAL_ERROR.
GatewayCatch(error) ==
    IF error.graphql
    THEN ErrorResponse(error.message, error.code)
    ELSE ErrorResponse("Failed to create commute job", "INTERNAL_ERROR")

\* ------------------------------------------- Job Store: update, read, SQL
\* type job_status of the datastore
JobStatuses == {"PENDING", "IN_PROGRESS", "COMPLETED", "FAILED"}
TerminalStatuses == {"COMPLETED", "FAILED"}
UpdateFields == {"status", "progress", "currentStep", "result", "errorMessage"}
\* An update input is the record of the keys sent with a non-null value;
\* progress is in hundredths, so 150 stands for 1.5.
NoFields == [f \in {} |-> Null]
Running30 == [status |-> "IN_PROGRESS", progress |-> 30, currentStep |-> "analyzing"]
Done100 == [status |-> "COMPLETED", progress |-> 100, result |-> "{}"]
Failed == [status |-> "FAILED", errorMessage |-> "worker crashed"]
\* updates posted to the backend endpoint: no field, some fields, a status
\* going backward, progress going down and out of range, an unknown status
UpdateInputs ==
    {NoFields, Running30, Done100, [status |-> "PENDING"], [progress |-> 10], [progress |-> 150],
     [status |-> "BOGUS"]}
\* updates sent through the gateway, whose schema types status as JobStatus
GatewayUpdateInputs == {Running30, Failed}
\* update_job_progress has no parameter for result
SqlInputs == {[status |-> "PENDING", progress |-> 10], [status |-> "COMPLETED"]}
\* ids the job requests of the store specifications ask for
CallIds == {Uuid(1), Uuid(2)}
WorkerUpdates == {Running30, Done100}

\* Instant of a statement: later than every instant used before.
Now == uuidCounter + updateCount + 1

HasRow(rows, id) == \E row \in rows : row.id = id
RowOf(rows, id) == CHOOSE row \in rows : row.id = id
\* mutant: the UPDATE leaves the old version of the row next to the new one
ReplaceRow_KeepOld(rows, old, new) == rows \cup {new}
\* UPDATE ... WHERE id = $n rewrites the one row with that primary key.
ReplaceRow(rows, old, new) == (rows \ {old}) \cup {new}

\* mutant: every column of the statement is written, sent or not
UpdateRow_OverwriteAll(row, input, now) ==
    [row EXCEPT !.status = IF "status" \in DOMAIN input THEN input.status ELSE "PENDING",
                !.progress = IF "progress" \in DOMAIN input THEN input.progress ELSE 0,
                !.currentStep = IF "currentStep" \in DOMAIN input THEN input.currentStep ELSE Null,
                !.result = IF "result" \in DOMAIN input THEN input.result ELSE Null,
                !.errorMessage = IF "errorMessage" \in DOMAIN input THEN input.errorMessage ELSE Null,
                !.updatedAt = now]
\* mutant: progress never goes down
UpdateRow_MonotonicProgress(row, input, now) ==
    [row EXCEPT !.status = IF "status" \in DOMAIN input THEN input.status ELSE @,
                !.progress = IF "progress" \in DOMAIN input /\ input.progress > @ THEN input.progress ELSE @,
                !.currentStep = IF "currentStep" \in DOMAIN input THEN input.currentStep ELSE @,
                !.result = IF "result" \in DOMAIN input THEN input.result ELSE @,
                !.errorMessage = IF "errorMessage" \in DOMAIN input THEN input.errorMessage ELSE @,
                !.updatedAt = now]
\* mutant: the statement also resets created_at
UpdateRow_TouchCreatedAt(row, input, now) ==
    [row EXCEPT !.status = IF "status" \in DOMAIN input THEN input.status ELSE @,
                !.progress = IF "progress" \in DOMAIN input THEN input.progress ELSE @,
                !.currentStep = IF "currentStep" \in DOMAIN input THEN input.currentStep ELSE @,
                !.result = IF "result" \in DOMAIN input THEN input.result ELSE @,
                !.errorMessage = IF "errorMessage" \in DOMAIN input THEN input.errorMessage ELSE @,
                !.createdAt = now, !.updatedAt = now]
\* The SET list Resolver.UpdateJob builds: updated_at = NOW(), then one
\* assignment per non-nil input field.
UpdateRow(row, input, now) ==
    [row EXCEPT !.status = IF "status" \in DOMAIN input THEN input.status ELSE @,
                !.progress = IF "progress" \in DOMAIN input THEN input.progress ELSE @,
                !.currentStep = IF "currentStep" \in DOMAIN input THEN input.currentStep ELSE @,
                !.result = IF "result" \in DOMAIN input THEN input.result ELSE @,
                !.errorMessage = IF "errorMessage" \in DOMAIN input THEN input.errorMessage ELSE @,
                !.updatedAt = now]

\* Column status has the enum type; progress is a FLOAT without a CHECK.
UpdateAccepted(input) == "status" \in DOMAIN input => input.status \in JobStatuses

\* Resolver.UpdateJob: the UPDATE ... RETURNING, sql.ErrNoRows turned into
\* "job not found", any other error into "error updating job".
UpdateJob(rows, id, input, now, dbOk) ==
    IF ~dbOk \/ ~UpdateAccepted(input)
    THEN [rows |-> rows, job |-> NoJob, err |-> "error updating job"]
    ELSE IF ~HasRow(rows, id)
         THEN [rows |-> rows, job |-> NoJob, err |-> "job not found"]
         ELSE LET job == UpdateRow(RowOf(rows, id), input, now)
              IN [rows |-> ReplaceRow(rows, RowOf(rows, id), job), job |-> job, err |-> Null]

\* Resolver.Job: SELECT ... WHERE id = $1.
Job(rows, id) ==
    IF HasRow(rows, id) THEN [job |-> RowOf(rows, id), err |-> Null]
    ELSE [job |-> NoJob, err |-> "job not found"]

\* SQL function update_job_progress: COALESCE(new, old) per column, then
\* RETURN FOUND.
UpdateJobProgress(rows, id, input, now) ==
    IF ~HasRow(rows, id)
    THEN [rows |-> rows, found |-> FALSE]
    ELSE LET row == RowOf(rows, id)
             job == [row EXCEPT !.status = IF "status" \in DOMAIN input THEN input.status ELSE @,
                                !.progress = IF "progress" \in DOMAIN input THEN input.progress ELSE @,
                                !.currentStep = IF "currentStep" \in DOMAIN input THEN input.currentStep ELSE @,
                                !.errorMessage = IF "errorMessage" \in DOMAIN input THEN input.errorMessage ELSE @,
                                !.updatedAt = now]
         IN [rows |-> ReplaceRow(rows, row, job), found |-> TRUE]

\* ------------------------------------------ backend /graphql, job requests
\* Variables the gateway's BackendService sends: updateJob sends id and
\* input, getJob and deleteJob send id alone.
RequestVariables(op, id, input) ==
    IF op = "updateJob" THEN [id |-> id, input |-> input] ELSE [id |-> id]
\* Key of the reply's data the caller reads.
DataKey(op) == IF op = "getJob" THEN "job" ELSE op

\* Default branch of the /graphql handler: an input with a userId is taken
\* for createJob, an id with an input for updateJob, nothing else is served.
Route(variables) ==
    IF "input" \in DOMAIN variables /\ "userId" \in DOMAIN variables.input THEN "createJob"
    ELSE IF "id" \in DOMAIN variables /\ "input" \in DOMAIN variables THEN "updateJob"
    ELSE "unsupported"

\* The UpdateJobInput the handler builds from the input map: the five known
\* keys that exist and are not null.
MainUpdateInput(input) == [f \in (DOMAIN input) \cap UpdateFields |-> input[f]]

\* The reply of the endpoint to a job request sent with variables, and the
\* descriptor its createJob branch hands to QueueJob, if any. A request
\* routed to createJob draws the next id and inserts a row, whatever the
\* mutation it was sent as.
BackendGraphQL(rows, variables, now, dbOk) ==
    IF Route(variables) = "updateJob"
    THEN LET input == IF "input" \in DOMAIN variables THEN MainUpdateInput(variables.input) ELSE NoFields
             res == UpdateJob(rows, variables.id, input, now, dbOk)
         IN [rows |-> res.rows,
             data |-> IF res.err = Null THEN [updateJob |-> res.job] ELSE NoFields,
             errors |-> IF res.err = Null THEN <<>> ELSE <<res.err>>,
             push |-> <<>>]
    ELSE IF Route(variables) = "createJob"
    THEN LET id == Uuid(uuidCounter + 1)
             job == NewJobRow(id, variables.input, uuidCounter + 1)
             created == dbOk /\ InsertAccepted(variables.input) /\ PrimaryKeyFree(rows, id)
         IN [rows |-> IF created THEN rows \cup {job} ELSE rows,
             data |-> IF created THEN [createJob |-> job] ELSE NoFields,
             errors |-> IF created THEN <<>> ELSE <<"error creating job">>,
             push |-> IF ShouldQueue(created) THEN <<JobMessage(job, variables.input)>> ELSE <<>>]
    ELSE [rows |-> rows, data |-> NoFields,
          errors |-> <<"Query not supported in this basic implementation">>,
          push |-> <<>>]

\* What the caller of a job request ends up with. A direct caller reads the
\* reply; the gateway resolver turns every reply with errors into one
\* GraphQLError per operation, and a reply without its data key into null.
GatewayFailure(op) ==
    IF op = "updateJob" THEN "Failed to update job"
    ELSE IF op = "getJob" THEN "Failed to fetch job" ELSE "Failed to delete job"
CallerResponse(via, op, reply) ==
    IF reply.errors # <<>>
    THEN IF via = "gateway"
         THEN GatewayCatch(GraphQLError(GatewayFailure(op), "BACKEND_ERROR"))
         ELSE ErrorResponse(reply.errors[1], Null)
    ELSE IF DataKey(op) \in DOMAIN reply.data
         THEN JobResponse(reply.data[DataKey(op)])
         ELSE JobResponse(NoJob)

\* A finished job request: what was asked, whether the datastore served its
\* statement, the rows before and after, and what the caller got.
NoCall == [op |-> "none", via |-> "none", id |-> Null, input |-> NoFields, dbOk |-> TRUE,
           before |-> {}, after |-> {}, response |-> NoResponse]

\* ------------------------------------------------- client widget values
\* Records stand for null so that every field keeps one kind of value.
NoEvent == [jobId |-> Null]
NoResults == [status |-> "none"]
\* useState initial values; req and sub are the mutation in flight and the
\* widget's subscription, 0 for none.
WidgetInit ==
    [activeJobId |-> Null, jobResults |-> NoResults, error |-> "", creatingJob |-> FALSE,
     progressData |-> NoEvent, req |-> 0, sub |-> 0]
\* variables of the mutation handlePlanCommute sends
WidgetInput ==
    [userId |-> "u1", targetDate |-> "2025-08-15", inputData |-> "Commute planning request from demo data"]

Init ==
    /\ jobs = {}
    /\ uuidCounter = 0
    /\ updateCount = 0
    /\ lastCall = NoCall
    /\ queue = <<>>
    /\ taken = [w \in Consumers |-> <<>>]
    /\ reqs = [r \in Reqs |-> IdleReq]
    /\ gw = "constructed"
    /\ channelSubs = 0
    /\ progressListeners = [k \in {} |-> Null]
    /\ subs = [s \in Subs |-> NoSub]
    /\ pushQueue = [s \in Subs |-> <<>>]
    /\ delivered = [s \in Subs |-> <<>>]
    /\ channelLog = <<>>
    /\ pubClock = 0
    /\ listenerGot = [l \in ApiListeners |-> <<>>]
    /\ apiRegs = [l \in ApiListeners |-> NoReg]
    /\ widget = WidgetInit

\* ------------------------------------------------------ progress fan-out
\* Topic a jobProgress subscription listens on: a truthy jobId selects the
\* per-job topic, an absent or empty one the aggregate topic.
SubscribeTopic(jobId) ==
    IF jobId # Undefined /\ jobId # "" THEN JobTopic(jobId) ELSE AGGREGATE_TOPIC

\* mutant: publish holds an event back while an iterator of the topic has
\* events it did not hand out yet
PubSubPublish_Blocking(pq, topic, payload) ==
    IF \E s \in Subs : subs[s].state = "active" /\ subs[s].topic = topic /\ pq[s] # <<>>
    THEN pq
    ELSE [s \in Subs |-> IF subs[s].state = "active" /\ subs[s].topic = topic
                         THEN Append(pq[s], payload) ELSE pq[s]]
\* mutant: publish stops working once an iterator has returned
PubSubPublish_BrokenByReturn(pq, topic, payload) ==
    IF \E s \in Subs : subs[s].state = "closed"
    THEN pq
    ELSE [s \in Subs |-> IF subs[s].state = "active" /\ subs[s].topic = topic
                         THEN Append(pq[s], payload) ELSE pq[s]]
\* pubsub.publish: the payload is queued for every iterator subscribed to
\* the topic at this moment; nothing is kept for a topic without one.
PubSubPublish(pq, topic, payload) ==
    [s \in Subs |-> IF subs[s].state = "active" /\ subs[s].topic = topic
                    THEN Append(pq[s], payload) ELSE pq[s]]

\* The well-formed events published on the Progress Channel so far, in order.
ChannelEvents ==
    LET wf == SelectSeq(channelLog, LAMBDA m : m.wellFormed)
    IN [i \in 1..Len(wf) |-> wf[i].event]

\* mutant: a new iterator is handed what its topic carried before
NewIteratorQueue_Replay(topic) ==
    SelectSeq(ChannelEvents, LAMBDA e : topic = AGGREGATE_TOPIC \/ topic = JobTopic(e.jobId))
\* pubsub.asyncIterator: a new iterator starts with an empty queue, whatever
\* was published on its topic before.
NewIteratorQueue(topic) == <<>>

\* mutant: the relay forgets the per-job topic
RelayListener_AggregateOnly(pq, progress) == PubSubPublish(pq, AGGREGATE_TOPIC, progress)
\* mutant: the relay forgets the aggregate topic
RelayListener_PerJobOnly(pq, progress) == PubSubPublish(pq, JobTopic(progress.jobId), progress)
\* mutant: the relay publishes on the aggregate topic twice
RelayListener_Twice(pq, progress) ==
    PubSubPublish(PubSubPublish(PubSubPublish(pq, JobTopic(progress.jobId), progress),
                                AGGREGATE_TOPIC, progress), AGGREGATE_TOPIC, progress)
\* mutant: the relay stops forwarding once an event says COMPLETED
RelayListener_DropTerminal(pq, progress) ==
    IF progress.status = "COMPLETED" THEN pq
    ELSE PubSubPublish(PubSubPublish(pq, JobTopic(progress.jobId), progress), AGGREGATE_TOPIC, progress)
\* The listener startServer registers: per-job topic, then aggregate topic.
RelayListener(pq, progress) ==
    PubSubPublish(PubSubPublish(pq, JobTopic(progress.jobId), progress), AGGREGATE_TOPIC, progress)

\* mutant: the relay also writes the event's status and progress to the row
InvokeListener_Persist(listener, st, progress) ==
    IF listener = RELAY
    THEN [st EXCEPT !.pq = RelayListener(@, progress),
                    !.rows = {IF row.id = progress.jobId
                              THEN [row EXCEPT !.status = progress.status, !.progress = progress.progress]
                              ELSE row : row \in @}]
    ELSE [st EXCEPT !.got[listener] = Append(@, progress)]
\* Calling one registered listener with an event.
InvokeListener(listener, st, progress) ==
    IF listener = RELAY
    THEN [st EXCEPT !.pq = RelayListener(@, progress)]
    ELSE [st EXCEPT !.got[listener] = Append(@, progress)]

\* mutant: a message that is not JSON is handed on like an event
JsonParse_Lenient(message) == [ok |-> TRUE, value |-> message.event]
\* JSON.parse of a channel message.
JsonParse(message) == [ok |-> message.wellFormed, value |-> message.event]

\* The handler RedisService.connect subscribes to the Progress Channel: the
\* listener stored under the event's jobId, then the one stored under '*'.
ChannelHandler(st, message) ==
    LET parsed == JsonParse(message)
        progress == parsed.value
        st1 == IF MapHas(progressListeners, progress.jobId)
               THEN InvokeListener(progressListeners[progress.jobId], st, progress) ELSE st
        st2 == IF MapHas(progressListeners, STAR)
               THEN InvokeListener(progressListeners[STAR], st1, progress) ELSE st1
    IN IF parsed.ok THEN st2 ELSE st

\* The initial event createCommuteJob builds after a successful pushJob.
InitialProgress(job, now) ==
    [jobId |-> job.id, status |-> "PENDING", progress |-> 0,
     currentStep |-> "Queued for processing", timestamp |-> now]

\* --------------------------------------------------------- gateway startup
\* mutant: connect subscribes its handler to the channel twice
SubscriberSubscribe_Twice(n) == n + 2
\* subscriber.subscribe(channel, handler) of RedisService.connect: one more
\* handler on the Progress Channel.
SubscriberSubscribe(n) == n + 1

\* redis.connect(): both clients connected, channel handler subscribed.
RedisConnect ==
    /\ gw = "constructed"
    /\ gw' = "connected"
    /\ channelSubs' = SubscriberSubscribe(channelSubs)
    /\ UNCHANGED <<widget, storeVars, queueVars, reqs, progressListeners, fanoutVars, channelVars, listenerGot, apiRegs>>

\* redis.subscribeToAllProgress(relay listener) in startServer.
RelaySetup ==
    /\ gw = "connected"
    /\ gw' = "relaying"
    /\ progressListeners' = MapSet(progressListeners, STAR, RELAY)
    /\ UNCHANGED <<widget, storeVars, queueVars, reqs, channelSubs, fanoutVars, channelVars, listenerGot, apiRegs>>

\* Schema, WebSocket server, Apollo server and httpServer.listen.
Listen ==
    /\ gw = "relaying"
    /\ gw' = "listening"
    /\ UNCHANGED <<widget, storeVars, queueVars, reqs, channelSubs, progressListeners, fanoutVars, channelVars, listenerGot,
                   apiRegs>>

\* ------------------------------------------------------- gateway shutdown
\* gracefulShutdown, first half: httpServer.close() and server.stop(), whose
\* drainServer disposes the WebSocket server: every subscription ends.
ServerStop ==
    /\ gw = "listening"
    /\ gw' = "draining"
    /\ subs' = [s \in Subs |-> IF subs[s].state = "active" THEN ClosedSub ELSE subs[s]]
    /\ pushQueue' = [s \in Subs |-> <<>>]
    /\ UNCHANGED <<widget, storeVars, queueVars, reqs, channelSubs, progressListeners, delivered, channelVars, listenerGot,
                   apiRegs>>

\* gracefulShutdown, second half: redis.disconnect() closes both clients,
\* which ends the channel subscription, and clears progressListeners.
RedisDisconnect ==
    /\ gw = "draining"
    /\ gw' = "stopped"
    /\ channelSubs' = 0
    /\ progressListeners' = [k \in {} |-> Null]
    /\ UNCHANGED <<widget, storeVars, queueVars, reqs, fanoutVars, channelVars, listenerGot, apiRegs>>

\* ------------------------------------------------- gateway createCommuteJob
\* mutant: the resolver calls the backend without looking at the input
GwStart_NoValidation(r, input) ==
    /\ gw = "listening"
    /\ reqs[r].via = "none"
    /\ \A q \in Reqs : q < r => reqs[q].via # "none"
    /\ reqs' = [reqs EXCEPT ![r] = [@ EXCEPT !.via = "gateway", !.pc = "backend", !.input = input]]
    /\ UNCHANGED <<widget, storeVars, queueVars, relayVars, fanoutVars, channelVars>>
\* Entry of the resolver: input validation, then the call of the backend.
\* Requests are numbered in their order of arrival.
\* What the resolver makes of a request on entry: refused by the validation,
\* or on its way to the backend.
ValidatedReq(req, input) ==
    IF input.userId = "" \/ input.targetDate = ""
    THEN [req EXCEPT !.via = "gateway", !.pc = "done", !.input = input, !.failedAt = "validate",
              !.response = GatewayCatch(GraphQLError("userId and targetDate are required", "BAD_USER_INPUT"))]
    ELSE [req EXCEPT !.via = "gateway", !.pc = "backend", !.input = input]

GwStart(r, input) ==
    /\ gw = "listening"
    /\ reqs[r].via = "none"
    /\ \A q \in Reqs : q < r => reqs[q].via # "none"
    /\ reqs' = [reqs EXCEPT ![r] = ValidatedReq(@, input)]
    /\ UNCHANGED <<widget, storeVars, queueVars, relayVars, fanoutVars, channelVars>>

\* A client posting the createJob mutation to the backend /graphql endpoint.
BackendStart(r, input) ==
    /\ reqs[r].via = "none"
    /\ \A q \in Reqs : q < r => reqs[q].via # "none"
    /\ reqs' = [reqs EXCEPT ![r] = [@ EXCEPT !.via = "backend", !.pc = "backend", !.input = input]]
    /\ UNCHANGED <<widget, storeVars, queueVars, relayVars, fanoutVars, channelVars>>

\* What the requester of the backend createJob branch does with the reply:
\* a direct caller is done; the gateway goes on to pushJob, or fails when the
\* reply carries errors (makeGraphQLRequest throws a plain Error).
AfterBackendReply(req, created, job) ==
    IF req.via = "backend"
    THEN [req EXCEPT !.pc = "done", !.job = job,
             !.failedAt = IF created THEN Null ELSE "create",
             !.response = IF created THEN JobResponse(job) ELSE ErrorResponse("error creating job", Null)]
    ELSE IF created
         THEN [req EXCEPT !.pc = "push", !.job = job]
         ELSE [req EXCEPT !.pc = "done", !.failedAt = "create",
                   !.response = GatewayCatch(PlainError("Backend GraphQL error"))]

\* Backend /graphql createJob branch: Resolver.CreateJob, then, when a job
\* came back, Resolver.QueueJob; a failed push is only logged.
BackendCreateJob(r, dbOk, queueOk) ==
    /\ reqs[r].pc = "backend"
    /\ uuidCounter' = uuidCounter + 1
    /\ LET id == Uuid(uuidCounter + 1)
           job == NewJobRow(id, reqs[r].input, uuidCounter + 1)
           created == dbOk /\ InsertAccepted(reqs[r].input) /\ PrimaryKeyFree(jobs, id)
       IN /\ jobs' = IF created THEN jobs \cup {job} ELSE jobs
          /\ queue' = IF ShouldQueue(created) /\ queueOk
                      THEN LPush(queue, JobMessage(job, reqs[r].input)) ELSE queue
          /\ reqs' = [reqs EXCEPT ![r] = AfterBackendReply(@, created, IF created THEN job ELSE NoJob)]
    /\ UNCHANGED <<widget, updateCount, lastCall, taken, relayVars, fanoutVars, channelVars>>

\* redis.pushJob of the gateway: LPUSH, or the thrown plain Error caught by
\* the resolver.
GwPushJob(r, ok) ==
    /\ reqs[r].via = "gateway" /\ reqs[r].pc = "push"
    /\ IF ok
       THEN /\ queue' = LPush(queue, Descriptor(reqs[r].job))
            /\ reqs' = [reqs EXCEPT ![r] = [@ EXCEPT !.pc = "publish"]]
       ELSE /\ queue' = queue
            /\ reqs' = [reqs EXCEPT ![r] = [@ EXCEPT !.pc = "done", !.failedAt = "enqueue",
                            !.response = GatewayCatch(PlainError("Failed to queue job for processing"))]]
    /\ UNCHANGED <<widget, storeVars, taken, relayVars, fanoutVars, channelVars>>

\* Continuation after pushJob: the initial progress event goes to the
\* aggregate topic only, then the job is returned.
GwPublishInitial(r) ==
    /\ reqs[r].via = "gateway" /\ reqs[r].pc = "publish"
    /\ pubClock' = pubClock + 1
    /\ pushQueue' = PubSubPublish(pushQueue, AGGREGATE_TOPIC, InitialProgress(reqs[r].job, pubClock + 1))
    /\ reqs' = [reqs EXCEPT ![r] = [@ EXCEPT !.pc = "done", !.response = JobResponse(reqs[r].job)]]
    /\ UNCHANGED <<widget, storeVars, queueVars, relayVars, subs, delivered, channelLog>>

\* ----------------------------------------------------------------- worker
\* A worker instance pops the oldest descriptor; the pop is atomic.
Dequeue(w) ==
    /\ queue # <<>>
    /\ taken' = [taken EXCEPT ![w] = Append(@, QueueHead(queue))]
    /\ queue' = QueueRest(queue)
    /\ UNCHANGED <<widget, storeVars, reqs, relayVars, fanoutVars, channelVars>>

\* Redis hands a channel message to every handler subscribed at that moment.
RECURSIVE RunHandlers(_, _, _)
RunHandlers(n, st, message) ==
    IF n = 0 THEN st
    ELSE IF n = 1 THEN ChannelHandler(st, message)
    ELSE RunHandlers(n - 1, ChannelHandler(st, message), message)

\* A message reaches the Progress Channel; the gateway's handler runs when
\* it is subscribed, otherwise the message is gone. What a handler can reach
\* is the iterators' queues, the registered listeners and the Job Store.
ChannelPublish(message) ==
    /\ Len(channelLog) < MaxMsgs
    /\ channelLog' = Append(channelLog, message)
    /\ pubClock' = pubClock + 1
    /\ LET st == RunHandlers(channelSubs, [pq |-> pushQueue, got |-> listenerGot, rows |-> jobs], message)
       IN /\ pushQueue' = st.pq
          /\ listenerGot' = st.got
          /\ jobs' = st.rows
    /\ UNCHANGED <<widget, uuidCounter, updateCount, lastCall, queueVars, reqs, gw, channelSubs, progressListeners, subs,
                   delivered, apiRegs>>

\* The worker publishes a progress event for some job id.
WorkerPublish(jobId, kind) ==
    ChannelPublish([wellFormed |-> TRUE,
                    event |-> [jobId |-> jobId, status |-> kind.status, progress |-> kind.progress,
                               currentStep |-> Null, timestamp |-> pubClock + 1]])

\* Something that is not JSON arrives on the channel.
WorkerPublishGarbage ==
    ChannelPublish([wellFormed |-> FALSE,
                    event |-> [jobId |-> Null, status |-> Null, progress |-> 0,
                               currentStep |-> Null, timestamp |-> pubClock + 1]])

\* --------------------------------------------------- subscription clients
\* Subscription.jobProgress.subscribe: a new async iterator on one topic.
\* Clients are numbered in their order of connection.
Subscribe(s, jobId) ==
    /\ gw = "listening"
    /\ subs[s].state = "none"
    /\ \A t \in Subs : t < s => subs[t].state # "none"
    /\ subs' = [subs EXCEPT ![s] = [state |-> "active", jobId |-> jobId,
                                    topic |-> SubscribeTopic(jobId), since |-> pubClock]]
    /\ pushQueue' = [pushQueue EXCEPT ![s] = NewIteratorQueue(SubscribeTopic(jobId))]
    /\ UNCHANGED <<widget, storeVars, queueVars, reqs, relayVars, delivered, channelVars>>

\* Client disconnect: the iterator returns, leaves its topic and empties
\* its queue.
Unsubscribe(s) ==
    /\ subs[s].state = "active"
    /\ subs' = [subs EXCEPT ![s] = ClosedSub]
    /\ pushQueue' = [pushQueue EXCEPT ![s] = <<>>]
    /\ UNCHANGED <<widget, storeVars, queueVars, reqs, relayVars, delivered, channelVars>>

\* The subscription loop pulls the next queued event and sends it.
Consume(s) ==
    /\ subs[s].state = "active"
    /\ pushQueue[s] # <<>>
    /\ delivered' = [delivered EXCEPT ![s] = Append(@, Head(pushQueue[s]))]
    /\ pushQueue' = [pushQueue EXCEPT ![s] = Tail(@)]
    /\ UNCHANGED <<widget, storeVars, queueVars, reqs, relayVars, subs, channelVars>>

\* --------------------------------- RedisService listener registration API
\* subscribeToJobProgress(jobId, listener) called by a component that got
\* the service from the request context.
ApiSubscribeToJobProgress(l, jobId) ==
    /\ gw = "listening"
    /\ apiRegs[l] = NoReg
    /\ progressListeners' = MapSet(progressListeners, jobId, l)
    /\ apiRegs' = [apiRegs EXCEPT ![l] = [key |-> jobId, since |-> pubClock, active |-> TRUE]]
    /\ UNCHANGED <<widget, storeVars, queueVars, reqs, gw, channelSubs, fanoutVars, channelVars, listenerGot>>

\* subscribeToAllProgress(listener).
ApiSubscribeToAllProgress(l) ==
    /\ gw = "listening"
    /\ apiRegs[l] = NoReg
    /\ progressListeners' = MapSet(progressListeners, STAR, l)
    /\ apiRegs' = [apiRegs EXCEPT ![l] = [key |-> STAR, since |-> pubClock, active |-> TRUE]]
    /\ UNCHANGED <<widget, storeVars, queueVars, reqs, gw, channelSubs, fanoutVars, channelVars, listenerGot>>

\* unsubscribeFromJobProgress(jobId) / unsubscribeFromAllProgress() called by
\* the component that registered under that key.
ApiUnsubscribe(l) ==
    /\ apiRegs[l].active
    /\ progressListeners' = MapDelete(progressListeners, apiRegs[l].key)
    /\ apiRegs' = [apiRegs EXCEPT ![l] = [@ EXCEPT !.active = FALSE]]
    /\ UNCHANGED <<widget, storeVars, queueVars, reqs, gw, channelSubs, fanoutVars, channelVars, listenerGot>>

\* ------------------------------------------------ job requests after creation
\* One job request from its caller to the reply: the gateway resolver (or a
\* direct caller) posts to the backend /graphql endpoint, the endpoint routes
\* it, and the caller reads the reply.
JobCall(via, op, id, input, dbOk) ==
    /\ via = "gateway" => gw = "listening"
    /\ op = "updateJob" => updateCount < MaxUpdates
    /\ LET variables == RequestVariables(op, id, input)
           reply == BackendGraphQL(jobs, variables, Now, dbOk)
       IN /\ Route(variables) = "createJob" => uuidCounter < MaxReqs
          /\ jobs' = reply.rows
          /\ uuidCounter' = IF Route(variables) = "createJob" THEN uuidCounter + 1 ELSE uuidCounter
          /\ queue' \in IF reply.push = <<>> THEN {queue} ELSE {queue, LPush(queue, reply.push[1])}
          /\ updateCount' = IF Route(variables) = "updateJob" THEN updateCount + 1 ELSE updateCount
          /\ lastCall' = [op |-> op, via |-> via, id |-> id, input |-> input, dbOk |-> dbOk,
                          before |-> jobs, after |-> reply.rows,
                          response |-> CallerResponse(via, op, reply)]
    /\ UNCHANGED <<widget, taken, reqs, relayVars, fanoutVars, channelVars>>

\* Mutation.updateJob of the gateway.
GwUpdateJob(id, input, dbOk) == JobCall("gateway", "updateJob", id, input, dbOk)
\* Query.job of the gateway.
GwGetJob(id) == JobCall("gateway", "getJob", id, NoFields, TRUE)
\* Mutation.deleteJob of the gateway.
GwDeleteJob(id) == JobCall("gateway", "deleteJob", id, NoFields, TRUE)
\* An updateJob mutation posted to the backend endpoint directly.
BackendUpdateJob(id, input, dbOk) == JobCall("backend", "updateJob", id, input, dbOk)

\* SELECT update_job_progress(...) run against the datastore.
SqlUpdateJobProgress(id, input) ==
    /\ updateCount < MaxUpdates
    /\ LET res == UpdateJobProgress(jobs, id, input, Now)
       IN /\ jobs' = res.rows
          /\ lastCall' = [op |-> "update_job_progress", via |-> "sql", id |-> id, input |-> input,
                          dbOk |-> TRUE, before |-> jobs, after |-> res.rows,
                          response |-> [NoResponse EXCEPT !.ok = res.found]]
    /\ updateCount' = updateCount + 1
    /\ UNCHANGED <<widget, uuidCounter, queueVars, reqs, relayVars, fanoutVars, channelVars>>

\* A worker instance writes the state of the job it popped last back to
\* the Job Store, addressing it by the job_id of the descriptor.
WorkerUpdateJob(w, input) ==
    /\ taken[w] # <<>>
    /\ JobCall("worker", "updateJob", taken[w][Len(taken[w])].job_id, input, TRUE)


\* ------------------------------------------------- CommutePlannerWidget
\* results a worker may put in its final event: JSON, not JSON, none
ResultJson == "{\"route\":\"A\"}"
WidgetOutcomes ==
    {[status |-> "IN_PROGRESS", progress |-> 30],
     [status |-> "COMPLETED", progress |-> 100, result |-> ResultJson],
     [status |-> "COMPLETED", progress |-> 100, result |-> "not json"],
     [status |-> "COMPLETED", progress |-> 100],
     [status |-> "FAILED", progress |-> 30, errorMessage |-> "analysis failed"]}

\* The worker publishes an event that may carry a result or an error message.
WorkerPublishOutcome(jobId, outcome) ==
    ChannelPublish([wellFormed |-> TRUE,
                    event |-> [f \in (DOMAIN outcome) \cup {"jobId", "currentStep", "timestamp"} |->
                                  IF f = "jobId" THEN jobId
                                  ELSE IF f = "currentStep" THEN Null
                                  ELSE IF f = "timestamp" THEN pubClock + 1
                                  ELSE outcome[f]]])

\* JSON.parse(progress.result) in onData.
ResultParse(text) ==
    IF text = ResultJson THEN [ok |-> TRUE, value |-> [route |-> "A"]]
    ELSE [ok |-> FALSE, value |-> NoResults]
\* The record onData falls back to.
GenericCompletion(progress) ==
    [status |-> "completed", message |-> "Commute analysis completed successfully!",
     jobId |-> progress.jobId, timestamp |-> progress.timestamp]
\* What setJobResults is called with for a COMPLETED event.
CompletionResults(progress) ==
    IF "result" \in DOMAIN progress /\ progress.result # "" /\ ResultParse(progress.result).ok
    THEN ResultParse(progress.result).value
    ELSE GenericCompletion(progress)

\* mutant: a FAILED event leaves the widget waiting
OnData_IgnoreFailed(w, progress) ==
    IF progress.jobId # w.activeJobId THEN [w EXCEPT !.progressData = progress]
    ELSE IF progress.status = "COMPLETED"
    THEN [w EXCEPT !.progressData = progress, !.jobResults = CompletionResults(progress), !.activeJobId = Null]
    ELSE [w EXCEPT !.progressData = progress]
\* mutant: onData does not compare the event's jobId with activeJobId
OnData_NoFilter(w, progress) ==
    IF progress.status = "COMPLETED"
    THEN [w EXCEPT !.progressData = progress, !.jobResults = CompletionResults(progress), !.activeJobId = Null]
    ELSE IF progress.status = "FAILED"
    THEN [w EXCEPT !.progressData = progress, !.activeJobId = Null]
    ELSE [w EXCEPT !.progressData = progress]
\* useSubscription on an event: data becomes the event, then onData runs:
\* events of another job are ignored, COMPLETED sets jobResults and clears
\* activeJobId, FAILED clears activeJobId.
OnData(w, progress) ==
    IF progress.jobId # w.activeJobId THEN [w EXCEPT !.progressData = progress]
    ELSE IF progress.status = "COMPLETED"
    THEN [w EXCEPT !.progressData = progress, !.jobResults = CompletionResults(progress), !.activeJobId = Null]
    ELSE IF progress.status = "FAILED"
    THEN [w EXCEPT !.progressData = progress, !.activeJobId = Null]
    ELSE [w EXCEPT !.progressData = progress]

\* currentProgress: the last event, when it is about the active job.
CurrentProgress(w) == IF w.progressData.jobId = w.activeJobId THEN w.progressData ELSE NoEvent

\* mutant: the Plan button stays enabled while a job is active
PlanEnabled_HandlerOnly(w) == ~w.creatingJob
\* The Plan button is disabled while creatingJob or activeJobId is set, and
\* handlePlanCommute returns at once while creatingJob is set.
PlanEnabled(w) == ~(w.creatingJob \/ w.activeJobId # Null) /\ ~w.creatingJob

\* handlePlanCommute up to the await: the createCommuteJob mutation is sent
\* and enters the gateway resolver.
WidgetPlan(r) ==
    /\ PlanEnabled(widget)
    /\ gw = "listening"
    /\ reqs[r].via = "none"
    /\ \A q \in Reqs : q < r => reqs[q].via # "none"
    /\ reqs' = [reqs EXCEPT ![r] = ValidatedReq(@, WidgetInput)]
    /\ widget' = [widget EXCEPT !.error = "", !.creatingJob = TRUE, !.req = r]
    /\ UNCHANGED <<storeVars, queueVars, relayVars, fanoutVars, channelVars>>

\* handlePlanCommute after the await: a job id makes the job the active
\* one and clears the results, anything else sets error; finally
\* creatingJob is reset.
WidgetResponse ==
    /\ widget.req # 0
    /\ reqs[widget.req].pc = "done"
    /\ LET response == reqs[widget.req].response
       IN widget' = IF response.ok /\ response.job.id # Null
                    THEN [widget EXCEPT !.activeJobId = response.job.id, !.jobResults = NoResults,
                                        !.creatingJob = FALSE, !.req = 0]
                    ELSE [widget EXCEPT !.error = response.message, !.creatingJob = FALSE, !.req = 0]
    /\ UNCHANGED <<storeVars, queueVars, reqs, relayVars, fanoutVars, channelVars>>

\* useSubscription once skip is false: the widget subscribes to jobProgress
\* without a jobId.
WidgetSubscribe(s) ==
    /\ widget.activeJobId # Null /\ widget.sub = 0
    /\ gw = "listening"
    /\ subs[s].state = "none"
    /\ \A t \in Subs : t < s => subs[t].state # "none"
    /\ subs' = [subs EXCEPT ![s] = [state |-> "active", jobId |-> Undefined,
                                    topic |-> SubscribeTopic(Undefined), since |-> pubClock]]
    /\ pushQueue' = [pushQueue EXCEPT ![s] = NewIteratorQueue(SubscribeTopic(Undefined))]
    /\ widget' = [widget EXCEPT !.sub = s]
    /\ UNCHANGED <<storeVars, queueVars, reqs, relayVars, delivered, channelVars>>

\* The next event of the widget's subscription arrives in the browser.
WidgetOnData ==
    /\ widget.sub # 0
    /\ subs[widget.sub].state = "active"
    /\ pushQueue[widget.sub] # <<>>
    /\ delivered' = [delivered EXCEPT ![widget.sub] = Append(@, Head(pushQueue[widget.sub]))]
    /\ pushQueue' = [pushQueue EXCEPT ![widget.sub] = Tail(@)]
    /\ widget' = OnData(widget, Head(pushQueue[widget.sub]))
    /\ UNCHANGED <<storeVars, queueVars, reqs, relayVars, subs, channelVars>>

\* useSubscription once skip is true again: the subscription is ended and
\* its data dropped.
WidgetSkip ==
    /\ widget.activeJobId = Null /\ widget.sub # 0
    /\ subs' = [subs EXCEPT ![widget.sub] = ClosedSub]
    /\ pushQueue' = [pushQueue EXCEPT ![widget.sub] = <<>>]
    /\ widget' = [widget EXCEPT !.sub = 0, !.progressData = NoEvent]
    /\ UNCHANGED <<storeVars, queueVars, reqs, relayVars, delivered, channelVars>>

\* ---------------------------------------------------------- specifications
\* The whole system.
Next ==
    \/ RedisConnect
    \/ RelaySetup
    \/ Listen
    \/ \E r \in Reqs, input \in Inputs : GwStart(r, input)
    \/ \E r \in Reqs, input \in Inputs : BackendStart(r, input)
    \/ \E r \in Reqs, dbOk \in BOOLEAN, queueOk \in BOOLEAN : BackendCreateJob(r, dbOk, queueOk)
    \/ \E r \in Reqs, ok \in BOOLEAN : GwPushJob(r, ok)
    \/ \E r \in Reqs : GwPublishInitial(r)
    \/ \E w \in Consumers : Dequeue(w)
    \/ \E jobId \in EventJobIds, kind \in EventKinds : WorkerPublish(jobId, kind)
    \/ WorkerPublishGarbage
    \/ \E s \in Subs, jobId \in SubscribeArgs : Subscribe(s, jobId)
    \/ \E s \in Subs : Unsubscribe(s)
    \/ \E s \in Subs : Consume(s)
    \/ \E l \in ApiListeners, jobId \in {Uuid(1), Uuid(2)} : ApiSubscribeToJobProgress(l, jobId)
    \/ \E l \in ApiListeners : ApiSubscribeToAllProgress(l)
    \/ \E l \in ApiListeners : ApiUnsubscribe(l)
    \/ \E id \in CallIds, input \in GatewayUpdateInputs, dbOk \in BOOLEAN : GwUpdateJob(id, input, dbOk)
    \/ \E id \in CallIds : GwGetJob(id)
    \/ \E id \in CallIds : GwDeleteJob(id)
    \/ \E id \in CallIds, input \in UpdateInputs, dbOk \in BOOLEAN : BackendUpdateJob(id, input, dbOk)
    \/ \E id \in CallIds, input \in SqlInputs : SqlUpdateJobProgress(id, input)
    \/ \E w \in Consumers, input \in WorkerUpdates : WorkerUpdateJob(w, input)
    \/ ServerStop
    \/ RedisDisconnect

Spec == Init /\ [][Next]_vars

\* Job creation and dispatch: the gateway and backend front doors and the
\* workers popping the queue; no subscription client, no worker publish.
NextDispatch ==
    \/ RedisConnect
    \/ RelaySetup
    \/ Listen
    \/ \E r \in Reqs, input \in Inputs : GwStart(r, input)
    \/ \E r \in Reqs, input \in Inputs : BackendStart(r, input)
    \/ \E r \in Reqs, dbOk \in BOOLEAN, queueOk \in BOOLEAN : BackendCreateJob(r, dbOk, queueOk)
    \/ \E r \in Reqs, ok \in BOOLEAN : GwPushJob(r, ok)
    \/ \E r \in Reqs : GwPublishInitial(r)
    \/ \E w \in Consumers : Dequeue(w)

SpecDispatch == Init /\ [][NextDispatch]_vars

\* Progress distribution as the gateway wires it: worker publishes, the
\* relay, subscription clients and their delivery loops.
NextProgress ==
    \/ RedisConnect
    \/ RelaySetup
    \/ Listen
    \/ \E ev \in SampleEvents : WorkerPublish(ev[1], ev[2])
    \/ WorkerPublishGarbage
    \/ \E s \in Subs, jobId \in ClientArgs : Subscribe(s, jobId)
    \/ \E s \in Subs : Unsubscribe(s)
    \/ \E s \in Subs : Consume(s)

SpecProgress == Init /\ [][NextProgress]_vars

\* Progress distribution next to one createCommuteJob call, whose initial
\* event reaches the aggregate topic from inside the gateway.
NextOrchestrated ==
    \/ RedisConnect
    \/ RelaySetup
    \/ Listen
    \/ GwStart(1, ValidInput)
    \/ \E dbOk \in BOOLEAN, queueOk \in BOOLEAN : BackendCreateJob(1, dbOk, queueOk)
    \/ \E ok \in BOOLEAN : GwPushJob(1, ok)
    \/ GwPublishInitial(1)
    \/ \E ev \in SampleEvents : WorkerPublish(ev[1], ev[2])
    \/ \E s \in Subs, jobId \in ClientArgs : Subscribe(s, jobId)
    \/ \E s \in Subs : Unsubscribe(s)

SpecOrchestrated == Init /\ [][NextOrchestrated]_vars

\* The listener registry of RedisService used directly, next to the relay.
NextApi ==
    \/ RedisConnect
    \/ RelaySetup
    \/ Listen
    \/ \E ev \in SampleEvents : WorkerPublish(ev[1], ev[2])
    \/ \E l \in ApiListeners, jobId \in {Uuid(1), Uuid(2)} : ApiSubscribeToJobProgress(l, jobId)
    \/ \E l \in ApiListeners : ApiSubscribeToAllProgress(l)
    \/ \E l \in ApiListeners : ApiUnsubscribe(l)

SpecApi == Init /\ [][NextApi]_vars

\* The Job Store behind the backend endpoint: createJob, then updates posted
\* to the endpoint and run through the SQL function.
NextStore ==
    \/ \E r \in Reqs : BackendStart(r, StoreInput)
    \/ \E r \in Reqs : BackendCreateJob(r, TRUE, TRUE)
    \/ \E id \in CallIds, input \in UpdateInputs : BackendUpdateJob(id, input, TRUE)
    \/ \E id \in CallIds, input \in SqlInputs : SqlUpdateJobProgress(id, input)

SpecStore == Init /\ [][NextStore]_vars

\* Job requests through the gateway: updateJob, job and deleteJob for ids
\* that createJob has or has not returned.
NextGatewayJobs ==
    \/ RedisConnect
    \/ RelaySetup
    \/ Listen
    \/ \E r \in Reqs : BackendStart(r, ValidInput)
    \/ \E r \in Reqs : BackendCreateJob(r, TRUE, TRUE)
    \/ \E id \in CallIds, input \in GatewayUpdateInputs, dbOk \in BOOLEAN : GwUpdateJob(id, input, dbOk)
    \/ \E id \in CallIds : GwGetJob(id)
    \/ \E id \in CallIds : GwDeleteJob(id)

SpecGatewayJobs == Init /\ [][NextGatewayJobs]_vars

\* One job from createCommuteJob to the worker: both enqueues, the pop and
\* the worker's writes to the Job Store.
NextLifecycle ==
    \/ RedisConnect
    \/ RelaySetup
    \/ Listen
    \/ \E r \in Reqs : GwStart(r, ValidInput)
    \/ \E r \in Reqs, dbOk \in BOOLEAN, queueOk \in BOOLEAN : BackendCreateJob(r, dbOk, queueOk)
    \/ \E r \in Reqs, ok \in BOOLEAN : GwPushJob(r, ok)
    \/ \E r \in Reqs : GwPublishInitial(r)
    \/ \E w \in Consumers : Dequeue(w)
    \/ \E w \in Consumers, input \in WorkerUpdates : WorkerUpdateJob(w, input)

SpecLifecycle == Init /\ [][NextLifecycle]_vars

\* events and subscription arguments of the smaller progress specifications
RelayEvents == {<<Uuid(1), InProgress30>>, <<Uuid(1), Completed100>>}
RelayArgs == {Undefined, Uuid(1)}

\* The gateway process from startup to shutdown, with clients coming and
\* going and the channel carrying events and messages that are not JSON.
NextRelayLife ==
    \/ RedisConnect
    \/ RelaySetup
    \/ Listen
    \/ \E ev \in RelayEvents : WorkerPublish(ev[1], ev[2])
    \/ WorkerPublishGarbage
    \/ \E s \in Subs, jobId \in RelayArgs : Subscribe(s, jobId)
    \/ \E s \in Subs : Unsubscribe(s)
    \/ ServerStop
    \/ RedisDisconnect

SpecRelayLife == Init /\ [][NextRelayLife]_vars

\* createJob inputs with and without inputData
SubmitInputs == {ValidInput, StoreInput}

\* Job submission through both front doors with a queue store that may be
\* down at either push, for requests with and without inputData.
NextSubmit ==
    \/ RedisConnect
    \/ RelaySetup
    \/ Listen
    \/ \E r \in Reqs, input \in SubmitInputs : GwStart(r, input)
    \/ \E r \in Reqs, input \in SubmitInputs : BackendStart(r, input)
    \/ \E r \in Reqs, queueOk \in BOOLEAN : BackendCreateJob(r, TRUE, queueOk)
    \/ \E r \in Reqs, ok \in BOOLEAN : GwPushJob(r, ok)
    \/ \E r \in Reqs : GwPublishInitial(r)

SpecSubmit == Init /\ [][NextSubmit]_vars

\* createCommuteJob calls whose backend createJob may fail, watched by
\* clients of the aggregate topic.
NextSubmitWatched ==
    \/ RedisConnect
    \/ RelaySetup
    \/ Listen
    \/ \E r \in Reqs : GwStart(r, ValidInput)
    \/ \E r \in Reqs, dbOk \in BOOLEAN : BackendCreateJob(r, dbOk, TRUE)
    \/ \E r \in Reqs, ok \in BOOLEAN : GwPushJob(r, ok)
    \/ \E r \in Reqs : GwPublishInitial(r)
    \/ \E s \in Subs : Subscribe(s, Undefined)

SpecSubmitWatched == Init /\ [][NextSubmitWatched]_vars

\* The Job Store next to the progress path: one job created and updated at
\* the backend endpoint while events about it are published, relayed and
\* delivered.
NextStoreAndChannel ==
    \/ RedisConnect
    \/ RelaySetup
    \/ Listen
    \/ BackendStart(1, ValidInput)
    \/ BackendCreateJob(1, TRUE, TRUE)
    \/ BackendUpdateJob(Uuid(1), Running30, TRUE)
    \/ \E ev \in RelayEvents : WorkerPublish(ev[1], ev[2])
    \/ \E s \in Subs : Subscribe(s, Uuid(1))
    \/ \E s \in Subs : Consume(s)

SpecStoreAndChannel == Init /\ [][NextStoreAndChannel]_vars

\* Subscription clients that consume at their own pace, or not at all, and
\* disconnect while events keep coming.
NextClients ==
    \/ RedisConnect
    \/ RelaySetup
    \/ Listen
    \/ \E ev \in RelayEvents : WorkerPublish(ev[1], ev[2])
    \/ \E s \in Subs, jobId \in RelayArgs : Subscribe(s, jobId)
    \/ \E s \in Subs : Unsubscribe(s)
    \/ \E s \in Subs : Consume(s)

SpecClients == Init /\ [][NextClients]_vars

\* createCommuteJob called with inputs that pass and that fail its
\* validation, watched by clients of the aggregate topic.
NextValidate ==
    \/ RedisConnect
    \/ RelaySetup
    \/ Listen
    \/ \E r \in Reqs, input \in Inputs : GwStart(r, input)
    \/ \E r \in Reqs : BackendCreateJob(r, TRUE, TRUE)
    \/ \E r \in Reqs : GwPushJob(r, TRUE)
    \/ \E r \in Reqs : GwPublishInitial(r)
    \/ \E s \in Subs : Subscribe(s, Undefined)

SpecValidate == Init /\ [][NextValidate]_vars

\* updateJob inputs for the routing of the endpoint: plain update fields,
\* and update fields sent along with a userId and a targetDate
RoutedInputs ==
    {Running30, [userId |-> "u1", targetDate |-> "2025-08-15", status |-> "COMPLETED", progress |-> 100]}

\* updateJob mutations posted to the backend endpoint with all sorts of
\* input, next to createJob.
NextRouting ==
    \/ \E r \in Reqs : BackendStart(r, ValidInput)
    \/ \E r \in Reqs : BackendCreateJob(r, TRUE, TRUE)
    \/ \E id \in CallIds, input \in RoutedInputs : BackendUpdateJob(id, input, TRUE)

SpecRouting == Init /\ [][NextRouting]_vars

\* The widget of one browser against the gateway: Plan, the mutation, the
\* subscription that starts once a job is active, and a worker publishing
\* events for that job and for another one.
NextWidget ==
    \/ RedisConnect
    \/ RelaySetup
    \/ Listen
    \/ \E r \in Reqs : WidgetPlan(r)
    \/ \E r \in Reqs : BackendCreateJob(r, TRUE, TRUE)
    \/ \E r \in Reqs, ok \in BOOLEAN : GwPushJob(r, ok)
    \/ \E r \in Reqs : GwPublishInitial(r)
    \/ WidgetResponse
    \/ \E s \in Subs : WidgetSubscribe(s)
    \/ WidgetOnData
    \/ WidgetSkip
    \/ \E jobId \in JobUuids, outcome \in WidgetOutcomes : WorkerPublishOutcome(jobId, outcome)

SpecWidget == Init /\ [][NextWidget]_vars

\* Descriptors of job j in a list.
QueuedCount(list, j) == Count(list, LAMBDA d : d.job_id = j)

\* The worker publishes events of the jobs whose descriptor was queued.
WorkerReports ==
    \E jobId \in JobUuids, outcome \in WidgetOutcomes :
        /\ QueuedCount(queue, jobId) >= 1
        /\ WorkerPublishOutcome(jobId, outcome)
\* A step of the gateway's startup or of a createCommuteJob call.
GatewayStep ==
    \/ RedisConnect
    \/ RelaySetup
    \/ Listen
    \/ \E r \in Reqs : BackendCreateJob(r, TRUE, TRUE)
    \/ \E r \in Reqs, ok \in BOOLEAN : GwPushJob(r, ok)
    \/ \E r \in Reqs : GwPublishInitial(r)

NextWidgetLive ==
    \/ GatewayStep
    \/ \E r \in Reqs : WidgetPlan(r)
    \/ WidgetResponse
    \/ \E s \in Subs : WidgetSubscribe(s)
    \/ WidgetOnData
    \/ WidgetSkip
    \/ WorkerReports

\* The widget and the gateway with a worker that reports on queued jobs
\* only; the gateway's steps and the widget's callbacks run when they can,
\* the user and the worker act when they like.
SpecWidgetLive ==
    /\ Init /\ [][NextWidgetLive]_vars
    /\ WF_vars(GatewayStep)
    /\ WF_vars(WidgetResponse)
    /\ WF_vars(\E s \in Subs : WidgetSubscribe(s))
    /\ WF_vars(WidgetOnData)
    /\ WF_vars(WidgetSkip)

\* ================================================================ claims
\* What client s has been given so far: sent to it, or queued for it.
Got(s) == delivered[s] \o pushQueue[s]
IsActive(s) == subs[s].state = "active"
OnAggregate(s) == IsActive(s) /\ subs[s].jobId \in {Undefined, ""}
OnPerJob(s) == IsActive(s) /\ subs[s].jobId \notin {Undefined, ""}
\* The channel events for job id j published after instant since, in order.
PublishedFor(j, since) == SelectSeq(ChannelEvents, LAMBDA e : e.jobId = j /\ e.timestamp > since)
IsChannelEvent(e) == \E i \in DOMAIN ChannelEvents : ChannelEvents[i] = e
\* Number of descriptors for job id j pushed so far: still queued or popped.
PoppedCount(j) == Cardinality({wi \in Consumers \X (1..(2 * MaxReqs)) :
                                  wi[2] \in DOMAIN taken[wi[1]] /\ taken[wi[1]][wi[2]].job_id = j})
PushedCount(j) == Count(queue, LAMBDA d : d.job_id = j) + PoppedCount(j)
GatewayDone(r) == reqs[r].via = "gateway" /\ reqs[r].pc = "done"

\* C1: when createCommuteJob created the row and its enqueue then failed, the
\* caller gets an error that differs from the error of a failed creation and
\* that carries the id of the created job.
C1_DispatchFailedDistinct ==
    \A r \in Reqs :
        GatewayDone(r) /\ reqs[r].failedAt = "enqueue"
        => /\ reqs[r].response # GatewayCatch(PlainError("Backend GraphQL error"))
           /\ reqs[r].response.job.id = reqs[r].job.id

\* C2: a successful createCommuteJob call has put exactly one descriptor for
\* the new job id in the dispatch queue.
C2_OneDescriptorPerJob ==
    \A r \in Reqs :
        GatewayDone(r) /\ reqs[r].response.ok => PushedCount(reqs[r].job.id) = 1

\* C3: over all dequeue calls of all consumers, a descriptor of one job id is
\* returned at most once.
C3_DequeuedAtMostOnce ==
    \A j \in JobUuids : PoppedCount(j) <= 1

\* C4: a client subscribed to job J's topic is given every event for J that
\* was published on the Progress Channel after it subscribed, in the order
\* of publication.
C4_PerJobAllInOrder ==
    \A s \in Subs :
        OnPerJob(s) /\ subs[s].jobId \in JobUuids
        => SelectSeq(Got(s), LAMBDA e : e.jobId = subs[s].jobId)
              = PublishedFor(subs[s].jobId, subs[s].since)

C4_Witness ==
    \E s \in Subs :
        /\ OnPerJob(s) /\ subs[s].jobId \in JobUuids
        /\ Len(PublishedFor(subs[s].jobId, subs[s].since)) >= 2
        /\ Len(delivered[s]) >= 1

\* C5: a client subscribed to a per-job topic is never given an event whose
\* jobId differs from the job id it subscribed with.
C5_PerJobOnlyOwnJob ==
    \A s \in Subs :
        OnPerJob(s) => \A i \in DOMAIN Got(s) : Got(s)[i].jobId = subs[s].jobId

C5_Witness ==
    \E s \in Subs :
        /\ OnPerJob(s) /\ Len(Got(s)) >= 1
        /\ \E i \in DOMAIN ChannelEvents :
              /\ ChannelEvents[i].jobId # subs[s].jobId
              /\ ChannelEvents[i].timestamp > subs[s].since

\* C6: a client subscribed to the aggregate topic is given, for every job,
\* every channel event of that job published after it subscribed, in that
\* job's order of publication.
C6_AggregateAllPerJobOrder ==
    \A s \in Subs : \A j \in JobUuids :
        OnAggregate(s)
        => SelectSeq(Got(s), LAMBDA e : e.jobId = j /\ IsChannelEvent(e))
              = PublishedFor(j, subs[s].since)

C6_Witness ==
    \E s \in Subs :
        /\ OnAggregate(s)
        /\ Len(PublishedFor(Uuid(1), subs[s].since)) >= 1
        /\ Len(PublishedFor(Uuid(2), subs[s].since)) >= 1
        /\ \E i \in DOMAIN Got(s) : ~IsChannelEvent(Got(s)[i])

\* C7: a client on job J's topic and a client on the aggregate topic, both
\* subscribed before an event for J is published, are each given exactly one
\* copy of that event.
C7_ExactlyOneCopy ==
    \A i \in DOMAIN ChannelEvents : \A s \in Subs :
        LET e == ChannelEvents[i]
        IN /\ e.jobId \in JobUuids
           /\ IsActive(s) /\ subs[s].since < e.timestamp
           /\ subs[s].jobId \in {e.jobId, Undefined}
           => Count(Got(s), LAMBDA x : x = e) = 1

C7_Witness ==
    \E s \in Subs, t \in Subs :
        /\ Len(ChannelEvents) = 1 /\ ChannelEvents[1].jobId = Uuid(2)
        /\ OnPerJob(s) /\ subs[s].jobId = Uuid(2) /\ Got(s) = ChannelEvents
        /\ OnAggregate(t) /\ Got(t) = ChannelEvents

\* C8: a listener registered with the service and not unsubscribed is given
\* every matching event published after its registration, whatever other
\* registrations followed.
C8_NoEviction ==
    \A l \in ApiListeners :
        apiRegs[l].active
        => \A i \in DOMAIN ChannelEvents :
              LET e == ChannelEvents[i]
              IN e.timestamp > apiRegs[l].since /\ apiRegs[l].key \in {e.jobId, STAR}
                 => \E k \in DOMAIN listenerGot[l] : listenerGot[l][k] = e

\* C9: no event is replayed: whatever a client has been given was published
\* after it subscribed; what was published before, with or without a
\* subscriber on the topic then, is not kept for it.
C9_NoReplay ==
    \A s \in Subs :
        IsActive(s) => \A i \in DOMAIN Got(s) : Got(s)[i].timestamp > subs[s].since

C9_Witness ==
    /\ GatewayDone(1) /\ reqs[1].response.ok
    /\ OnAggregate(1) /\ Got(1) = <<>>
    /\ \E s \in Subs : OnPerJob(s) /\ Got(s) = <<>>
                       /\ \E i \in DOMAIN ChannelEvents :
                             /\ ChannelEvents[i].jobId = subs[s].jobId
                             /\ ChannelEvents[i].timestamp <= subs[s].since

\* C10: every job returned by a successful createCommuteJob or createJob call
\* has status PENDING and progress 0, and its id differs from the id of the
\* job returned by any other call.
C10_PendingZeroFreshId ==
    \A r \in Reqs :
        reqs[r].response.ok
        => /\ reqs[r].response.job.status = "PENDING"
           /\ reqs[r].response.job.progress = 0
           /\ \A q \in Reqs : q # r /\ reqs[q].response.ok
                 => reqs[q].response.job.id # reqs[r].response.job.id

C10_Witness ==
    \E r \in Reqs, q \in Reqs :
        /\ reqs[r].via = "gateway" /\ reqs[r].response.ok
        /\ reqs[q].via = "backend" /\ reqs[q].response.ok

\* The request that createJob answered with job id j, and whether one did.
Returned(j) == \E r \in Reqs : reqs[r].response.ok /\ reqs[r].response.job.id = j
CreatedRow(j) == reqs[CHOOSE r \in Reqs : reqs[r].response.ok /\ reqs[r].response.job.id = j].response.job
IsUpdateOfExisting == lastCall.op = "updateJob" /\ HasRow(lastCall.before, lastCall.id)

\* C11: when the enqueue of createCommuteJob failed after the row was
\* created, the row is still in the Job Store and reading it shows PENDING.
C11_StillPendingAfterFailedEnqueue ==
    \A r \in Reqs :
        GatewayDone(r) /\ reqs[r].failedAt = "enqueue"
        => /\ HasRow(jobs, reqs[r].job.id)
           /\ Job(jobs, reqs[r].job.id).job.status = "PENDING"

\* C12: a job whose stored status is COMPLETED or FAILED keeps a terminal
\* status through every updateJob and update_job_progress call.
C12_TerminalAbsorbing ==
    \A old \in lastCall.before :
        old.status \in TerminalStatuses
        => \A new \in lastCall.after : new.id = old.id => new.status \in TerminalStatuses

\* C13: a successful updateJob on an existing job writes exactly the fields
\* sent with a value, keeps the other fields, refreshes updatedAt (also for
\* an input without fields) and returns the row it wrote.
C13_PartialOverwrite ==
    IsUpdateOfExisting /\ lastCall.response.ok
    => LET old == RowOf(lastCall.before, lastCall.id)
           new == RowOf(lastCall.after, lastCall.id)
       IN /\ \A f \in UpdateFields :
                 new[f] = IF f \in DOMAIN lastCall.input THEN lastCall.input[f] ELSE old[f]
          /\ new.updatedAt > old.updatedAt
          /\ lastCall.response.job = new
          /\ lastCall.after \ {new} = lastCall.before \ {old}

C13_Witness ==
    /\ IsUpdateOfExisting /\ lastCall.response.ok
    /\ lastCall.input = NoFields
    /\ RowOf(lastCall.before, lastCall.id).status = "IN_PROGRESS"
    /\ Cardinality(lastCall.before) >= 2

\* C14: updateJob with an id that has no row gives its caller an error that
\* says so (it differs from the error of a failed statement), creates no
\* row and changes no row.
C14_NotFoundToCaller ==
    lastCall.op = "updateJob" /\ ~HasRow(lastCall.before, lastCall.id)
        /\ lastCall.dbOk /\ UpdateAccepted(lastCall.input)
    => /\ lastCall.after = lastCall.before
       /\ ~lastCall.response.ok
       /\ lastCall.response #
             CallerResponse(lastCall.via, "updateJob",
                            [rows |-> lastCall.before, data |-> NoFields, errors |-> <<"error updating job">>])

\* C15: after a successful updateJob that sent a progress, reading the job
\* returns that progress, whether it is above or below the one stored before.
C15_LastWriteWins ==
    IsUpdateOfExisting /\ lastCall.response.ok /\ "progress" \in DOMAIN lastCall.input
    => Job(jobs, lastCall.id).job.progress = lastCall.input.progress

C15_Witness ==
    /\ IsUpdateOfExisting /\ lastCall.response.ok /\ "progress" \in DOMAIN lastCall.input
    /\ lastCall.input.progress < RowOf(lastCall.before, lastCall.id).progress
    /\ Job(jobs, lastCall.id).job.progress = 10

\* C16: the stored progress of every job is within 0.0 and 1.0 (0 and 100
\* hundredths).
C16_ProgressInRange ==
    \A row \in jobs : row.progress <= 100

\* C17: for every job id createJob has returned there is exactly one row, in
\* every later state, whatever updateJob, job and deleteJob calls were made.
C17_ExactlyOneRow ==
    \A j \in JobUuids : Returned(j) => Cardinality({row \in jobs : row.id = j}) = 1

C17_Witness ==
    /\ lastCall.op = "deleteJob" /\ Returned(lastCall.id)
    /\ RowOf(jobs, lastCall.id).status # "PENDING"

\* C18: the row of a created job keeps the id, user_id, target_date,
\* input_data and created_at it was created with through every update.
C18_ImmutableFields ==
    \A j \in JobUuids :
        Returned(j)
        => \E row \in jobs :
              /\ row.id = j
              /\ row.userId = CreatedRow(j).userId
              /\ row.targetDate = CreatedRow(j).targetDate
              /\ row.inputData = CreatedRow(j).inputData
              /\ row.createdAt = CreatedRow(j).createdAt

C18_Witness ==
    \E j \in JobUuids :
        /\ Returned(j) /\ CreatedRow(j).inputData # Null
        /\ RowOf(jobs, j).status = "COMPLETED"
        /\ RowOf(jobs, j).updatedAt > CreatedRow(j).updatedAt + 1

\* C19: the job query of the gateway, asked for an id createJob has returned,
\* answers with the stored record of that job.
C19_GetJobReturnsRecord ==
    lastCall.op = "getJob" /\ Returned(lastCall.id)
    => /\ lastCall.response.ok
       /\ lastCall.response.job = RowOf(lastCall.before, lastCall.id)

\* C20: every well-formed event on the Progress Channel reaches, unmodified,
\* the clients then subscribed to the aggregate topic and to the topic of the
\* event's jobId, whatever its status or progress and whatever the job has
\* reported before; nothing else reaches them.
C20_RelayNoFilterNoChange ==
    \A s \in Subs :
        IsActive(s)
        => /\ \A i \in DOMAIN ChannelEvents :
                 LET e == ChannelEvents[i]
                 IN e.timestamp > subs[s].since /\ subs[s].topic \in {AGGREGATE_TOPIC, JobTopic(e.jobId)}
                    => \E k \in DOMAIN Got(s) : Got(s)[k] = e
           /\ \A k \in DOMAIN Got(s) : IsChannelEvent(Got(s)[k])

C20_Witness ==
    \E s \in Subs, t \in Subs :
        /\ Len(ChannelEvents) = 2
        /\ ChannelEvents[1].jobId = Uuid(2) /\ ChannelEvents[1].status = "COMPLETED"
        /\ ChannelEvents[2].jobId = Uuid(2)
        /\ subs[s].state = "active" /\ subs[s].topic = JobTopic(Uuid(2)) /\ Got(s) = ChannelEvents
        /\ subs[t].state = "active" /\ subs[t].topic = AGGREGATE_TOPIC /\ Got(t) = ChannelEvents

\* C21: from redis.connect() until redis.disconnect() the gateway holds
\* exactly one subscription to the Progress Channel: none before startup and
\* after shutdown, never a second one, and one whenever a client is subscribed.
C21_OneChannelSubscription ==
    /\ gw \in {"connected", "relaying", "listening", "draining"} => channelSubs = 1
    /\ gw \in {"constructed", "stopped"} => channelSubs = 0
    /\ (\E s \in Subs : IsActive(s)) => channelSubs = 1

C21_Witness ==
    /\ gw = "listening" /\ channelSubs = 1
    /\ Len(channelLog) = MaxMsgs
    /\ \E s, t \in Subs : subs[s].state = "closed" /\ IsActive(t) /\ Got(t) # <<>>

\* C30: a channel message that is not JSON is published on no topic, and a
\* well-formed event that follows it still reaches every client subscribed
\* to one of its topics.
C30_MalformedSkipped ==
    /\ \A s \in Subs : \A k \in DOMAIN Got(s) : IsChannelEvent(Got(s)[k])
    /\ \A s \in Subs : \A i, k \in DOMAIN channelLog :
          /\ IsActive(s) /\ i < k
          /\ ~channelLog[i].wellFormed /\ channelLog[k].wellFormed
          /\ channelLog[k].event.timestamp > subs[s].since
          /\ subs[s].topic \in {AGGREGATE_TOPIC, JobTopic(channelLog[k].event.jobId)}
          => \E n \in DOMAIN Got(s) : Got(s)[n] = channelLog[k].event

C30_Witness ==
    \E s \in Subs :
        /\ IsActive(s) /\ Len(channelLog) >= 2
        /\ ~channelLog[1].wellFormed /\ channelLog[2].wellFormed
        /\ subs[s].since < channelLog[1].event.timestamp
        /\ Got(s) = <<channelLog[2].event>>

\* The descriptor that i - 1 pops from now would leave next in line.
RECURSIVE NthOldest(_, _)
NthOldest(list, i) == IF i = 1 THEN QueueHead(list) ELSE NthOldest(QueueRest(list), i - 1)

C23_NeverPutBack ==
    [][\A j \in JobUuids : PoppedCount(j) >= 1 => QueuedCount(queue', j) <= QueuedCount(queue, j)]_vars

\* C24: every queued descriptor of a submitted job carries the job's id,
\* owner and target date under job_id, user_id and target_date, and carries
\* the request's inputData under input_data when the request had one.
C24_DescriptorCarriesInput ==
    \A r \in Reqs : \A i \in DOMAIN queue :
        reqs[r].job # NoJob /\ queue[i].job_id = reqs[r].job.id
        => /\ queue[i].user_id = reqs[r].job.userId
           /\ queue[i].target_date = reqs[r].job.targetDate
           /\ "inputData" \in DOMAIN reqs[r].input
              => "input_data" \in DOMAIN queue[i] /\ queue[i].input_data = reqs[r].input.inputData

\* C25: a creation whose enqueue failed does not report success: a caller
\* that was handed the job has that job's descriptor in the queue, and a
\* gateway call whose pushJob failed reports an error and pushed nothing.
C25_EnqueueFailureReported ==
    \A r \in Reqs :
        /\ reqs[r].pc = "done" /\ reqs[r].response.ok => PushedCount(reqs[r].job.id) >= 1
        /\ reqs[r].failedAt = "enqueue" => ~reqs[r].response.ok /\ PushedCount(reqs[r].job.id) <= 1

\* Requests whose createJob returned a job.
CreatedReqs == {r \in Reqs : reqs[r].job # NoJob}

\* C26: a descriptor is pushed, and an initial progress event published,
\* only for a job whose row exists; a createCommuteJob call whose createJob
\* failed leaves the queue as it was and publishes nothing, so the queue
\* holds at most the two descriptors, and a client at most the one event,
\* of each call whose createJob succeeded.
C26_EnqueueAfterCreate ==
    /\ \A i \in DOMAIN queue : HasRow(jobs, queue[i].job_id)
    /\ \A s \in Subs : \A k \in DOMAIN Got(s) : HasRow(jobs, Got(s)[k].jobId)
    /\ Len(queue) <= 2 * Cardinality(CreatedReqs)
    /\ \A s \in Subs : Len(Got(s)) <= Cardinality(CreatedReqs)
    /\ \A r \in Reqs : reqs[r].failedAt = "create" => r \notin CreatedReqs /\ ~reqs[r].response.ok

C26_Witness ==
    \E r, q \in Reqs : \E s \in Subs :
        /\ reqs[r].failedAt = "create"
        /\ GatewayDone(q) /\ reqs[q].response.ok
        /\ OnAggregate(s) /\ subs[s].since = 0
        /\ Len(Got(s)) = 1 /\ Got(s)[1].jobId = reqs[q].job.id
        /\ Len(queue) = 2

\* C27: a step that publishes on the Progress Channel, relays an event to
\* the clients' queues or delivers one to a client leaves table jobs as it
\* was.
C27_ProgressPathLeavesStore ==
    [][(channelLog' # channelLog \/ pushQueue' # pushQueue \/ delivered' # delivered) => jobs' = jobs]_vars

C27_Witness ==
    \E s \in Subs : \E k \in DOMAIN delivered[s] :
        /\ delivered[s][k].status = "COMPLETED"
        /\ HasRow(jobs, delivered[s][k].jobId)
        /\ RowOf(jobs, delivered[s][k].jobId).status \in {"PENDING", "IN_PROGRESS"}

\* The channel events client s is subscribed for: those of its topic that
\* were published after it subscribed, in order.
MatchingSince(s) ==
    SelectSeq(ChannelEvents, LAMBDA e : /\ e.timestamp > subs[s].since
                                        /\ subs[s].topic \in {AGGREGATE_TOPIC, JobTopic(e.jobId)})

\* C28: the relay does not wait for a client. While client s sits on events
\* it has not consumed, every other client t has been given all the events
\* it is subscribed for, and what t has not been sent yet is in t's own
\* queue, ready to be sent.
C28_SlowClientDelaysNobody ==
    \A s, t \in Subs :
        s # t /\ IsActive(s) /\ IsActive(t) /\ pushQueue[s] # <<>>
        => /\ Got(t) = MatchingSince(t)
           /\ delivered[t] # MatchingSince(t) => pushQueue[t] # <<>>

C28_Witness ==
    \E s, t \in Subs :
        /\ s # t /\ IsActive(s) /\ IsActive(t) /\ subs[s].topic = subs[t].topic
        /\ delivered[s] = <<>> /\ Len(pushQueue[s]) = MaxMsgs
        /\ Len(delivered[t]) = MaxMsgs /\ pushQueue[t] = <<>>

\* C29: a client that disconnected is given nothing further, and every
\* client still subscribed, on the same topic or another, has been given
\* all the events it is subscribed for; the gateway's channel subscription
\* stays.
C29_CancelIsLocal ==
    \A s \in Subs :
        subs[s].state = "closed"
        => /\ pushQueue[s] = <<>>
           /\ channelSubs = 1
           /\ \A t \in Subs : IsActive(t) => Got(t) = MatchingSince(t)

C29_Witness ==
    \E s, t \in Subs :
        /\ subs[s].state = "closed" /\ Len(delivered[s]) = 1
        /\ IsActive(t) /\ subs[t].since = 0 /\ Len(Got(t)) = MaxMsgs
        /\ Got(t)[1] = delivered[s][1]

\* createCommuteJob calls whose input has a userId and a targetDate.
ValidatedReqs == {r \in Reqs : reqs[r].via = "gateway" /\ reqs[r].input.userId # "" /\ reqs[r].input.targetDate # ""}

\* C31: createCommuteJob with an empty userId or targetDate ends at once
\* with BAD_USER_INPUT and without the job, and does nothing else: the
\* backend was called, rows exist, descriptors are queued and initial events
\* were handed out only for the calls whose input had both.
C31_InvalidInputNoEffect ==
    /\ \A r \in Reqs :
          reqs[r].via = "gateway" /\ r \notin ValidatedReqs
          => /\ reqs[r].pc = "done" /\ ~reqs[r].response.ok
             /\ reqs[r].response.code = "BAD_USER_INPUT"
             /\ reqs[r].job = NoJob
    /\ uuidCounter <= Cardinality(ValidatedReqs)
    /\ Cardinality(jobs) <= Cardinality(ValidatedReqs)
    /\ Len(queue) <= 2 * Cardinality(ValidatedReqs)
    /\ \A s \in Subs : Len(Got(s)) <= Cardinality(ValidatedReqs)

C31_Witness ==
    \E r, q \in Reqs : \E s \in Subs :
        /\ reqs[r].via = "gateway" /\ reqs[r].input.userId = ""
        /\ reqs[q].via = "gateway" /\ reqs[q].input.targetDate = ""
        /\ OnAggregate(s) /\ subs[s].since = 0
        /\ jobs = {} /\ queue = <<>> /\ Got(s) = <<>>

\* C32: every event about job J that a client of the aggregate topic was
\* given, the initial event of createCommuteJob included, was also given to
\* every client that was subscribed to J's topic when it was published.
C32_PerJobGetsWhatAggregateGets ==
    \A s, t \in Subs : \A k \in DOMAIN Got(s) :
        /\ OnAggregate(s) /\ OnPerJob(t)
        /\ Got(s)[k].jobId = subs[t].jobId
        /\ Got(s)[k].timestamp > subs[t].since
        => \E n \in DOMAIN Got(t) : Got(t)[n] = Got(s)[k]

\* C33: whatever jobId an event carries, the '*' of the relay's registry
\* key included, one event on the Progress Channel is one publication on
\* the aggregate topic and one on the topic of that jobId: a client of
\* either, subscribed before, is given the event once.
C33_OnePublicationPerTopic ==
    \A i \in DOMAIN ChannelEvents : \A s \in Subs :
        LET e == ChannelEvents[i]
        IN IsActive(s) /\ subs[s].since < e.timestamp /\ subs[s].topic \in {AGGREGATE_TOPIC, JobTopic(e.jobId)}
           => Count(Got(s), LAMBDA x : x = e) = 1

\* C38: a request to the backend endpoint with variables id and input is
\* an update of the job with that id whatever input holds: it leaves the
\* set of job ids and the queue as they were.
C38_UpdateNeverCreates ==
    [][lastCall' # lastCall /\ lastCall'.op = "updateJob"
       => /\ {row.id : row \in jobs'} = {row.id : row \in jobs}
          /\ queue' = queue]_vars

\* The event the widget's subscription hands to onData in this step.
WidgetEvent == Head(pushQueue[widget.sub])
\* This step is onData receiving an event.
WidgetReceives ==
    /\ widget.sub # 0
    /\ pushQueue[widget.sub] # <<>>
    /\ delivered'[widget.sub] = Append(delivered[widget.sub], WidgetEvent)

\* C34: when the widget receives a COMPLETED or FAILED event of the active
\* job, activeJobId becomes null; on COMPLETED jobResults becomes the
\* parsed result when the result parses and the generic completion record
\* otherwise.
C34_TerminalEventClearsActiveJob ==
    [][WidgetReceives /\ WidgetEvent.jobId = widget.activeJobId /\ WidgetEvent.status \in TerminalStatuses
       => /\ widget'.activeJobId = Null
          /\ WidgetEvent.status = "COMPLETED" =>
                widget'.jobResults =
                    IF "result" \in DOMAIN WidgetEvent /\ WidgetEvent.result = ResultJson
                    THEN [route |-> "A"]
                    ELSE [status |-> "completed", message |-> "Commute analysis completed successfully!",
                          jobId |-> WidgetEvent.jobId, timestamp |-> WidgetEvent.timestamp]]_vars
\* the widget stopped waiting after a parsed result, and the subscription is
\* skipped again
C34_Witness ==
    /\ widget.activeJobId = Null /\ widget.sub = 0
    /\ widget.jobResults = [route |-> "A"]
    /\ \E s \in Subs : delivered[s] # <<>> /\ delivered[s][Len(delivered[s])].status = "COMPLETED"

\* C36: when the widget receives an event whose jobId is not activeJobId,
\* whatever its status, activeJobId and jobResults stay as they are and the
\* event is not the current progress.
C36_OtherJobEventIgnored ==
    [][WidgetReceives /\ WidgetEvent.jobId # widget.activeJobId
       => /\ widget'.activeJobId = widget.activeJobId
          /\ widget'.jobResults = widget.jobResults
          /\ CurrentProgress(widget') # WidgetEvent]_vars
\* the widget, waiting for its job, was handed a terminal event of another
\* job and still waits
C36_Witness ==
    /\ widget.activeJobId # Null /\ widget.sub # 0
    /\ widget.jobResults = NoResults
    /\ delivered[widget.sub] # <<>>
    /\ LET e == delivered[widget.sub][Len(delivered[widget.sub])]
       IN e.jobId # widget.activeJobId /\ e.status \in TerminalStatuses /\ widget.progressData = e

\* C37: a createCommuteJob mutation leaves the widget only when no job
\* creation is pending and no job is active.
C37_OneJobInFlight ==
    [][(\E r \in Reqs : reqs[r].via = "none" /\ reqs'[r].via # "none")
       => ~widget.creatingJob /\ widget.activeJobId = Null]_vars
\* a second job was submitted, after the first one ended, and is active
C37_Witness ==
    /\ reqs[2].via # "none"
    /\ widget.activeJobId = Uuid(2)
    /\ \E s \in Subs : \E k \in DOMAIN delivered[s] :
          delivered[s][k].jobId = Uuid(1) /\ delivered[s][k].status \in TerminalStatuses

\* A terminal event of job j was published on the Progress Channel.
TerminalPublished(j) ==
    \E i \in DOMAIN channelLog :
        channelLog[i].event.jobId = j /\ channelLog[i].event.status \in TerminalStatuses
\* The widget has had the reply to the mutation that created job j and is
\* not waiting for j.
WidgetSettled(j) ==
    /\ widget.activeJobId # j
    /\ \E r \in Reqs : reqs[r].job.id = j /\ reqs[r].pc = "done" /\ widget.req # r

====
